---------------------------- MODULE Spec2Model ----------------------------
(***************************************************************************)
(* A model of the sudoku solver: the 81-bit Bitfield, the path generator,  *)
(* Board::parse, and the backtracking search of main.rs.                   *)
(*                                                                         *)
(* A Bitfield (a u128) is modelled as the set of the indices of its set    *)
(* bits, a subset of 0..127.  A string is a sequence of characters, each a *)
(* one-character TLA+ string; Utf8Len gives a character's width in bytes.  *)
(***************************************************************************)
EXTENDS Integers, Sequences, FiniteSets, TLC

VARIABLES
    x, y, last_op, panicked,                       \* Bitfield registers
    possible_paths, helper_out, helper_pc,         \* a call of solve_helper
    gen_pos, gen_item, gen_count, probe, found,    \* a consumer of generate_paths()
    perm_pos, perm_item, perm_count,               \* a consumer of permutations()
    input, board, origin, clues0, was_solved, calls, pc   \* main: parse, then solve

bitVars    == <<x, y, last_op, panicked>>
helperVars == <<possible_paths, helper_out, helper_pc>>
genVars    == <<gen_pos, gen_item, gen_count, probe, found>>
permVars   == <<perm_pos, perm_item, perm_count>>
mainVars   == <<input, board, origin, clues0, was_solved, calls, pc>>
vars       == <<bitVars, helperVars, genVars, permVars, mainVars>>

(***************************************************************************)
(* Program constants.                                                      *)
(***************************************************************************)
GridSize == 9
BoxSize == 3
BitWidth == 128
NumCells == 81

Digits == 1..GridSize

\* Option<T>: None is the empty tuple, Some(v) the tuple of v alone.
None == <<>>
Some(v) == <<v>>

(***************************************************************************)
(* bitfield.rs                                                             *)
(***************************************************************************)
AllBits == 0..(BitWidth - 1)

\* const MASK: the low 81 bits.
MASK == 0..(NumCells - 1)

Default == {}

\* The assertion of Bitfield::new; the call panics when it fails.
NewAsserts(row, col) == row < GridSize /\ col < GridSize

\* Bitfield::new: 1 << (9 * row + col).
New(row, col) == {GridSize * row + col}

is_empty(self) == self = {}

BitOr(self, rhs) == self \cup rhs

BitAnd(self, rhs) == self \cap rhs

\* A complement that forgets the mask.
NotUnmasked(self) == AllBits \ self

\* impl Not: Bitfield(!self.0) & MASK.
Not(self) == BitAnd(AllBits \ self, MASK)

\* A containment that asks for a proper superset.
contains_proper(self, other) == BitAnd(other, self) = other /\ self # other

\* Bitfield::contains: other & self == other.
contains(self, other) == BitAnd(other, self) = other

\* Bitfield::len: count_ones.
len(self) == Cardinality(self)

(***************************************************************************)
(* The Bitfield operations, applied to two registers x and y.              *)
(***************************************************************************)
\* The coordinates tried: the first, the last valid one, the first invalid one.
Coords == {0, GridSize - 1, GridSize}

ParkedBits == x = Default /\ y = Default /\ last_op = "init" /\ panicked = FALSE

notBitVars == <<helperVars, genVars, permVars, mainVars>>

OpNew ==
    /\ ~panicked
    /\ UNCHANGED notBitVars
    /\ \E row \in Coords, col \in Coords :
          IF NewAsserts(row, col)
          THEN x' = New(row, col) /\ last_op' = "new" /\ UNCHANGED <<y, panicked>>
          ELSE panicked' = TRUE /\ last_op' = "panic" /\ UNCHANGED <<x, y>>

OpDefault ==
    /\ ~panicked
    /\ UNCHANGED notBitVars
    /\ x' = Default /\ last_op' = "default" /\ UNCHANGED <<y, panicked>>

OpCopy ==
    /\ ~panicked
    /\ UNCHANGED notBitVars
    /\ y' = x /\ last_op' = "copy" /\ UNCHANGED <<x, panicked>>

OpBitOr ==
    /\ ~panicked
    /\ UNCHANGED notBitVars
    /\ x' = BitOr(x, y) /\ last_op' = "or" /\ UNCHANGED <<y, panicked>>

\* bitor_assign: *self = *self | rhs.
OpBitOrAssign ==
    /\ ~panicked
    /\ UNCHANGED notBitVars
    /\ y' = BitOr(y, x) /\ last_op' = "or_assign" /\ UNCHANGED <<x, panicked>>

OpBitAnd ==
    /\ ~panicked
    /\ UNCHANGED notBitVars
    /\ x' = BitAnd(x, y) /\ last_op' = "and" /\ UNCHANGED <<y, panicked>>

\* bitand_assign: *self = *self & rhs.
OpBitAndAssign ==
    /\ ~panicked
    /\ UNCHANGED notBitVars
    /\ y' = BitAnd(y, x) /\ last_op' = "and_assign" /\ UNCHANGED <<x, panicked>>

OpNot ==
    /\ ~panicked
    /\ UNCHANGED notBitVars
    /\ x' = Not(y) /\ last_op' = "not" /\ UNCHANGED <<y, panicked>>

(***************************************************************************)
(* path.rs                                                                 *)
(***************************************************************************)
\* permutations(): nine nested loops over 0..9.  `bitfield` is the code's
\* integer of the numbers used so far, modelled as the set of its set bits, so
\* that `bitfield & (1 << n) == 0` reads n \notin bitfield.  Each level is a
\* filter and a flat_map: the concatenation, for n = 0, 1, .., 8 in order, of
\* what the deeper levels yield for the numbers the filter lets through; the
\* innermost level yields the array [a, b, c, d, e, f, g, h, i].
RECURSIVE permutations_from(_, _)
\* An innermost loop that stops one number short: 8 is never the last number.
flat_map_step_short(prefix, bitfield, n) ==
    IF n \in bitfield \/ (Len(prefix) = GridSize - 1 /\ n = GridSize - 1) THEN <<>>
    ELSE permutations_from(Append(prefix, n), bitfield \cup {n})

flat_map_step(prefix, bitfield, n) ==
    IF n \in bitfield
    THEN <<>>
    ELSE permutations_from(Append(prefix, n), bitfield \cup {n})

permutations_from(prefix, bitfield) ==
    IF Len(prefix) = GridSize
    THEN <<prefix>>
    ELSE flat_map_step(prefix, bitfield, 0) \o flat_map_step(prefix, bitfield, 1)
      \o flat_map_step(prefix, bitfield, 2) \o flat_map_step(prefix, bitfield, 3)
      \o flat_map_step(prefix, bitfield, 4) \o flat_map_step(prefix, bitfield, 5)
      \o flat_map_step(prefix, bitfield, 6) \o flat_map_step(prefix, bitfield, 7)
      \o flat_map_step(prefix, bitfield, 8)

permutations == permutations_from(<<>>, {})

\* A box that is one column too narrow.
new_box_narrow(row, col) ==
    UNION {New(BoxSize * row + sub_row, BoxSize * col + sub_col) :
              sub_row \in 0..(BoxSize - 1), sub_col \in 0..(BoxSize - 2)}

\* new_box: the fold of BitOr over the nine cells of the box.
new_box(row, col) ==
    UNION {New(BoxSize * row + sub_row, BoxSize * col + sub_col) :
              sub_row \in 0..(BoxSize - 1), sub_col \in 0..(BoxSize - 1)}

boxes ==
    <<new_box(0, 0), new_box(0, 1), new_box(0, 2),
      new_box(1, 0), new_box(1, 1), new_box(1, 2),
      new_box(2, 0), new_box(2, 1), new_box(2, 2)>>

\* A map that leaves the last row out.
cols_to_bitfield_short(cols) ==
    UNION ({Default} \cup {New(i - 1, cols[i]) : i \in 1..(Len(cols) - 1)})

\* The map of generate_paths: cols enumerated as (row, col), each made a
\* Bitfield, folded with BitOr from the default.
cols_to_bitfield(cols) ==
    UNION ({Default} \cup {New(i - 1, cols[i]) : i \in 1..Len(cols)})

\* A filter that is content with one good box.
any_box_has_one(potential_path) ==
    \E k \in 1..Len(boxes) : len(BitAnd(boxes[k], potential_path)) = 1

\* The filter of generate_paths: every box holds exactly one cell of the path.
all_boxes_have_one(potential_path) ==
    \A k \in 1..Len(boxes) : len(BitAnd(boxes[k], potential_path)) = 1

generate_paths ==
    LET mapped == [k \in 1..Len(permutations) |-> cols_to_bitfield(permutations[k])]
    IN  SelectSeq(mapped, all_boxes_have_one)

(***************************************************************************)
(* A consumer of the iterator generate_paths(): each step is one call of   *)
(* next().  gen_pos is the number of items taken so far, gen_item the item *)
(* the last call returned, gen_count what count() returns at the end, and  *)
(* found what any(|path| path == probe) has seen so far.                   *)
(***************************************************************************)
\* The path of test::includes_one_known_value.
KnownPath ==
    UNION {New(0, 1), New(1, 4), New(2, 8), New(3, 0), New(4, 3),
           New(5, 7), New(6, 5), New(7, 2), New(8, 6)}

\* The path of test::does_not_include_known_bad_value.
KnownBadPath ==
    UNION {New(0, 1), New(1, 2), New(2, 8), New(3, 0), New(4, 3),
           New(5, 7), New(6, 5), New(7, 4), New(8, 6)}

\* Row r's cell in column (r + 1) mod 9.
ShiftedDiagonal == UNION {New(r, (r + 1) % GridSize) : r \in 0..(GridSize - 1)}

Probes == {KnownPath, KnownBadPath, ShiftedDiagonal}

notGenVars == <<bitVars, helperVars, permVars, mainVars>>

ParkedGen ==
    /\ gen_pos = 0 /\ gen_item = None /\ gen_count = None
    /\ probe = Default /\ found = FALSE

InitGen ==
    /\ gen_pos = 0 /\ gen_item = None /\ gen_count = None
    /\ probe \in Probes /\ found = FALSE

\* next() returns Some(path).
GenYield ==
    /\ gen_count = None
    /\ gen_pos < Len(generate_paths)
    /\ gen_pos' = gen_pos + 1
    /\ gen_item' = Some(generate_paths[gen_pos + 1])
    /\ found' = (found \/ generate_paths[gen_pos + 1] = probe)
    /\ UNCHANGED <<gen_count, probe>>
    /\ UNCHANGED notGenVars

\* next() returns None: the iterator is exhausted.
GenExhaust ==
    /\ gen_count = None
    /\ gen_pos = Len(generate_paths)
    /\ gen_item' = None
    /\ gen_count' = Some(gen_pos)
    /\ UNCHANGED <<gen_pos, probe, found>>
    /\ UNCHANGED notGenVars

(***************************************************************************)
(* A consumer of permutations(): it calls next() until the iterator is     *)
(* exhausted.  perm_pos counts the items yielded, perm_item is the last    *)
(* one, perm_count the total once next() has returned None.                *)
(***************************************************************************)
notPermVars == <<bitVars, helperVars, genVars, mainVars>>

ParkedPerm == perm_pos = 0 /\ perm_item = None /\ perm_count = None

\* next() returns Some(array).
PermYield ==
    /\ perm_count = None
    /\ perm_pos < Len(permutations)
    /\ perm_pos' = perm_pos + 1
    /\ perm_item' = Some(permutations[perm_pos + 1])
    /\ UNCHANGED perm_count
    /\ UNCHANGED notPermVars

\* next() returns None: the iterator is exhausted.
PermExhaust ==
    /\ perm_count = None
    /\ perm_pos = Len(permutations)
    /\ perm_item' = None
    /\ perm_count' = Some(perm_pos)
    /\ UNCHANGED perm_pos
    /\ UNCHANGED notPermVars

(***************************************************************************)
(* digit.rs                                                                *)
(***************************************************************************)
\* Digit::parse: Some(digit) for '1'..'9', None for any other character.
digit_parse(ch) ==
    CASE ch = "1" -> Some(1) [] ch = "2" -> Some(2) [] ch = "3" -> Some(3)
      [] ch = "4" -> Some(4) [] ch = "5" -> Some(5) [] ch = "6" -> Some(6)
      [] ch = "7" -> Some(7) [] ch = "8" -> Some(8) [] ch = "9" -> Some(9)
      [] OTHER -> None

(***************************************************************************)
(* board.rs.  A Board is its array `placements`, indexed here by the digit *)
(* (the code indexes it by digit - 1).                                     *)
(***************************************************************************)
empty == [digit \in Digits |-> Default]

\* A check that forgets the limit of nine cells per digit.
RECURSIVE valid_overlap_only(_, _, _)
valid_overlap_only(placements, digit, total) ==
    IF digit > GridSize THEN TRUE
    ELSE IF ~is_empty(BitAnd(placements[digit], total)) THEN FALSE
    ELSE valid_overlap_only(placements, digit + 1, BitOr(total, placements[digit]))

\* The loop of Board::valid from `digit` on, `total` the union so far.
RECURSIVE valid_from(_, _, _)
valid_from(placements, digit, total) ==
    IF digit > GridSize THEN TRUE
    ELSE IF len(placements[digit]) > GridSize THEN FALSE
    ELSE IF ~is_empty(BitAnd(placements[digit], total)) THEN FALSE
    ELSE valid_from(placements, digit + 1, BitOr(total, placements[digit]))

valid(placements) == valid_from(placements, 1, Default)

\* The width in bytes of a character; "U+00E9" stands for a two-byte one.
Utf8Len(ch) == IF ch = "U+00E9" THEN 2 ELSE 1

\* str::len: the length in bytes, the sum of the characters' widths (summed
\* by halves).
RECURSIVE byte_len(_, _, _)
byte_len(s, lo, hi) ==
    IF lo > hi THEN 0
    ELSE IF lo = hi THEN Utf8Len(s[lo])
    ELSE byte_len(s, lo, (lo + hi) \div 2) + byte_len(s, ((lo + hi) \div 2) + 1, hi)

str_len(s) == byte_len(s, 1, Len(s))

\* The cell of the idx-th character: row idx / 9, column idx % 9.
cell_of_index(idx) == New(idx \div GridSize, idx % GridSize)

\* One step of the filter_map and try_fold of Board::parse, on the character
\* at index idx (from 0): a '.' is skipped; any other character must be a
\* digit, whose set gains the cell.  (idx < 81 whenever the length check
\* passed, so the assertion of Bitfield::new holds.)
parse_step(s, idx, placements) ==
    IF s[idx + 1] = "." THEN Some(placements)
    ELSE LET digit == digit_parse(s[idx + 1])
         IN  IF digit = None THEN None
             ELSE Some([placements EXCEPT ![digit[1]] = BitOr(@, cell_of_index(idx))])

\* The try_fold over the characters lo..hi in order, from the accumulator
\* acc; it stops at the first None.  (The range is folded by halves, the left
\* half first.)
RECURSIVE parse_fold(_, _, _, _)
parse_fold(s, lo, hi, acc) ==
    IF acc = None \/ lo > hi THEN acc
    ELSE IF lo = hi THEN parse_step(s, lo, acc[1])
    ELSE parse_fold(s, ((lo + hi) \div 2) + 1, hi,
                    parse_fold(s, lo, (lo + hi) \div 2, acc))

\* Board::parse.
parse(s) ==
    IF str_len(s) # NumCells THEN None
    ELSE LET folded == parse_fold(s, 0, Len(s) - 1, Some(empty))
         IN  IF folded = None THEN None
             ELSE IF valid(folded[1]) THEN folded ELSE None

(***************************************************************************)
(* main.rs                                                                 *)
(***************************************************************************)

\* A search that forgets the spaces its paths have taken.
RECURSIVE solve_helper_forgetful(_, _), find_map_forgetful(_, _, _, _, _)
solve_helper_forgetful(paths, taken_spaces) ==
    IF paths = <<>> THEN Some(<<>>)
    ELSE find_map_forgetful(Head(paths), 1, Len(Head(paths)), Tail(paths), taken_spaces)

find_map_forgetful(first, lo, hi, rest, taken_spaces) ==
    IF lo > hi THEN None
    ELSE IF lo = hi
    THEN IF ~is_empty(BitAnd(first[lo], taken_spaces)) THEN None
         ELSE LET output == solve_helper_forgetful(rest, taken_spaces)
              IN  IF output = None THEN None ELSE Some(<<first[lo]>> \o output[1])
    ELSE LET earlier == find_map_forgetful(first, lo, (lo + hi) \div 2, rest, taken_spaces)
         IN  IF earlier # None THEN earlier
             ELSE find_map_forgetful(first, ((lo + hi) \div 2) + 1, hi, rest, taken_spaces)

\* A search that never backtracks: it commits to the first path that fits.
RECURSIVE solve_helper_greedy(_, _)
solve_helper_greedy(paths, taken_spaces) ==
    IF paths = <<>> THEN Some(<<>>)
    ELSE LET fits(path) == is_empty(BitAnd(path, taken_spaces))
             fitting == SelectSeq(Head(paths), fits)
         IN  IF fitting = <<>> THEN None
             ELSE LET output == solve_helper_greedy(Tail(paths), BitOr(fitting[1], taken_spaces))
                  IN  IF output = None THEN None ELSE Some(<<fitting[1]>> \o output[1])

\* A search that pushes the path at the end of the output.
RECURSIVE solve_helper_push(_, _), find_map_push(_, _, _, _, _)
solve_helper_push(paths, taken_spaces) ==
    IF paths = <<>> THEN Some(<<>>)
    ELSE find_map_push(Head(paths), 1, Len(Head(paths)), Tail(paths), taken_spaces)

find_map_push(first, lo, hi, rest, taken_spaces) ==
    IF lo > hi THEN None
    ELSE IF lo = hi
    THEN IF ~is_empty(BitAnd(first[lo], taken_spaces)) THEN None
         ELSE LET output == solve_helper_push(rest, BitOr(first[lo], taken_spaces))
              IN  IF output = None THEN None ELSE Some(Append(output[1], first[lo]))
    ELSE LET earlier == find_map_push(first, lo, (lo + hi) \div 2, rest, taken_spaces)
         IN  IF earlier # None THEN earlier
             ELSE find_map_push(first, ((lo + hi) \div 2) + 1, hi, rest, taken_spaces)

\* A search that walks each candidate list from its end.
RECURSIVE solve_helper_backwards(_, _), find_map_backwards(_, _, _, _, _)
solve_helper_backwards(paths, taken_spaces) ==
    IF paths = <<>> THEN Some(<<>>)
    ELSE find_map_backwards(Head(paths), 1, Len(Head(paths)), Tail(paths), taken_spaces)

find_map_backwards(first, lo, hi, rest, taken_spaces) ==
    IF lo > hi THEN None
    ELSE IF lo = hi
    THEN IF ~is_empty(BitAnd(first[lo], taken_spaces)) THEN None
         ELSE LET output == solve_helper_backwards(rest, BitOr(first[lo], taken_spaces))
              IN  IF output = None THEN None ELSE Some(<<first[lo]>> \o output[1])
    ELSE LET earlier == find_map_backwards(first, ((lo + hi) \div 2) + 1, hi, rest, taken_spaces)
         IN  IF earlier # None THEN earlier
             ELSE find_map_backwards(first, lo, (lo + hi) \div 2, rest, taken_spaces)

\* solve_helper: split_first, then over `first` in order the filter (the path
\* misses taken_spaces) and the find_map (the first path whose recursive call
\* succeeds, put in front of that call's output).  find_map walks the
\* positions lo..hi of `first` by halves, the earlier half first and the later
\* half only when the earlier one found nothing, which is the order and the
\* early exit of the iterator.
RECURSIVE solve_helper_impl(_, _), find_map(_, _, _, _, _)
solve_helper_impl(paths, taken_spaces) ==
    IF paths = <<>> THEN Some(<<>>)
    ELSE find_map(Head(paths), 1, Len(Head(paths)), Tail(paths), taken_spaces)

find_map(first, lo, hi, rest, taken_spaces) ==
    IF lo > hi THEN None
    ELSE IF lo = hi
    THEN IF ~is_empty(BitAnd(first[lo], taken_spaces)) THEN None
         ELSE LET output == solve_helper_impl(rest, BitOr(first[lo], taken_spaces))
              IN  IF output = None THEN None ELSE Some(<<first[lo]>> \o output[1])
    ELSE LET earlier == find_map(first, lo, (lo + hi) \div 2, rest, taken_spaces)
         IN  IF earlier # None THEN earlier
             ELSE find_map(first, ((lo + hi) \div 2) + 1, hi, rest, taken_spaces)

solve_helper(paths, taken_spaces) == solve_helper_impl(paths, taken_spaces)

\* The fold of BitOr over the nine digit sets.
total_clues_of(placements) == UNION {placements[digit] : digit \in Digits}

\* A filter whose opposing clues are all the clues, the digit's own included.
candidates_opposing_all(placements, path_db, digit) ==
    LET clues == placements[digit]
        opposing_clues == total_clues_of(placements)
        keeps(path) == contains(path, clues) /\ is_empty(BitAnd(path, opposing_clues))
    IN  SelectSeq(path_db, keeps)

\* The candidate list solve builds for one digit: the paths of path_db, in
\* order, that contain the digit's clues and miss the opposing clues.
candidates(placements, path_db, digit) ==
    LET clues == placements[digit]
        opposing_clues == BitAnd(total_clues_of(placements), Not(clues))
        keeps(path) == contains(path, clues) /\ is_empty(BitAnd(path, opposing_clues))
    IN  SelectSeq(path_db, keeps)

solve_possible_paths(placements, path_db) ==
    [digit \in Digits |-> candidates(placements, path_db, digit)]

\* A solve that writes the first candidates to the board before searching.
solve_board_eager(placements, paths, assigned) ==
    IF assigned = None
    THEN [digit \in Digits |->
            IF paths[digit] = <<>> THEN placements[digit] ELSE paths[digit][1]]
    ELSE [digit \in Digits |-> assigned[1][digit]]

\* The board solve leaves behind: board[digit] = path for the zipped digits
\* when the search succeeded, the board untouched when it failed.
solve_board(placements, paths, assigned) ==
    IF assigned = None
    THEN placements
    ELSE [digit \in Digits |->
            IF digit <= Len(assigned[1]) THEN assigned[1][digit] ELSE placements[digit]]

(***************************************************************************)
(* A call of solve_helper with an empty taken_spaces, on candidate lists   *)
(* drawn from a pool of four small Bitfields.                              *)
(***************************************************************************)
MaxLists == 2
MaxCands == 2

PathPool == {Default, New(0, 0), New(0, 1), BitOr(New(0, 0), New(0, 1))}

CandidateLists == UNION {[1..n -> PathPool] : n \in 0..MaxCands}

HelperInputs == UNION {[1..m -> CandidateLists] : m \in 0..MaxLists}

notHelperVars == <<bitVars, genVars, permVars, mainVars>>

InitHelper ==
    /\ possible_paths \in HelperInputs
    /\ helper_out = None
    /\ helper_pc = "call"

HelperCall ==
    /\ helper_pc = "call"
    /\ helper_out' = solve_helper(possible_paths, Default)
    /\ helper_pc' = "returned"
    /\ UNCHANGED possible_paths
    /\ UNCHANGED notHelperVars

(***************************************************************************)
(* main: one puzzle is parsed and, when the parse succeeds, solved.        *)
(* `input` is the puzzle string; `board` the Option<Board> of the parse    *)
(* and then the board solve works on; clues0 the board as it was before    *)
(* the last call of solve; was_solved what that call returned; calls the   *)
(* number of calls of solve so far.  possible_paths and helper_out show    *)
(* the candidate lists and the search result of the last call.             *)
(***************************************************************************)
\* How many of the solved grid's first rows a puzzle may leave blank, how many
\* of a puzzle's first cells may be overwritten, and how often solve is called.
MaxBlankRows == 3
MaxEditPos == 1
MaxSolveCalls == 2

CharOf(n) ==
    CASE n = 0 -> "." [] n = 1 -> "1" [] n = 2 -> "2" [] n = 3 -> "3"
      [] n = 4 -> "4" [] n = 5 -> "5" [] n = 6 -> "6" [] n = 7 -> "7"
      [] n = 8 -> "8" [] n = 9 -> "9"

StringOfRows(rows) ==
    [i \in 1..NumCells |-> CharOf(rows[((i - 1) \div GridSize) + 1][((i - 1) % GridSize) + 1])]

\* The puzzle of test::parses_txt_correctly, row by row, 0 for '.'.
Canon ==
    StringOfRows(<< <<0, 0, 0, 0, 0, 0, 0, 0, 8>>,
                    <<0, 0, 3, 0, 0, 0, 4, 0, 0>>,
                    <<0, 9, 0, 0, 2, 0, 0, 6, 0>>,
                    <<0, 0, 0, 0, 7, 9, 0, 0, 0>>,
                    <<0, 0, 0, 0, 6, 1, 2, 0, 0>>,
                    <<0, 6, 0, 5, 0, 2, 0, 7, 0>>,
                    <<0, 0, 8, 0, 0, 0, 5, 0, 0>>,
                    <<0, 1, 0, 0, 0, 0, 0, 2, 0>>,
                    <<4, 0, 5, 0, 0, 0, 0, 0, 3>> >>)

\* A completed grid (a solution of Canon).
Solved ==
    StringOfRows(<< <<6, 2, 1, 9, 4, 3, 7, 5, 8>>,
                    <<7, 8, 3, 6, 1, 5, 4, 9, 2>>,
                    <<5, 9, 4, 7, 2, 8, 3, 6, 1>>,
                    <<1, 4, 2, 8, 7, 9, 6, 3, 5>>,
                    <<3, 5, 7, 4, 6, 1, 2, 8, 9>>,
                    <<8, 6, 9, 5, 3, 2, 1, 7, 4>>,
                    <<2, 3, 8, 1, 9, 7, 5, 4, 6>>,
                    <<9, 1, 6, 3, 5, 4, 8, 2, 7>>,
                    <<4, 7, 5, 2, 8, 6, 9, 1, 3>> >>)

\* The characters tried: the placeholder, the digits, a letter and a
\* two-byte character.
Alphabet == {".", "1", "2", "3", "4", "5", "6", "7", "8", "9", "Q", "U+00E9"}

BlankRows(k) == [i \in 1..NumCells |-> IF i <= GridSize * k THEN "." ELSE Solved[i]]

EditAt(s, pos, ch) == [s EXCEPT ![pos + 1] = ch]

Bases == {BlankRows(k) : k \in 0..MaxBlankRows}

\* A puzzle without a solution in which every digit alone can still be
\* placed: the solved grid without its first two rows, and in the first row a
\* 1 in column 4 and a 3 in column 5.
Stuck == EditAt(EditAt(BlankRows(2), 4, "1"), 5, "3")

\* The puzzles given to solve: Canon, Stuck, and each base with one of its
\* first cells overwritten.
SolveInputs ==
    {Canon, Stuck} \cup {EditAt(b, pos, ch) : b \in Bases, pos \in 0..(MaxEditPos - 1), ch \in Alphabet}

\* The strings given to Board::parse alone: Canon and each base with any one
\* character overwritten, a character appended, or the last one dropped
\* (and then, the first one made a two-byte character: 80 characters in 81
\* bytes); and the empty string.
ParseInputs ==
    LET from == Bases \cup {Canon}
    IN  {EditAt(b, pos, ch) : b \in from, pos \in 0..(NumCells - 1), ch \in Alphabet}
        \cup {Append(b, ch) : b \in from, ch \in Alphabet}
        \cup {SubSeq(b, 1, NumCells - 1) : b \in from}
        \cup {EditAt(SubSeq(b, 1, NumCells - 1), 0, "U+00E9") : b \in from}
        \cup {<<>>}

\* What a caller may write through IndexMut before the call of solve, as
\* test::valid_function_works does: board[digit] |= Bitfield::new(row, col).
Clobbers == {<<5, 5, 5>>, <<1, 8, 8>>}

notMainVars == <<bitVars, genVars, permVars>>

InitMain(inputs) ==
    /\ input \in inputs
    /\ board = None /\ origin = "none" /\ clues0 = None
    /\ was_solved = None /\ calls = 0 /\ pc = "start"
    /\ possible_paths = <<>> /\ helper_out = None /\ helper_pc = "idle"

\* Board::parse(&puzzle): Some(board), or None and "Invalid board format".
Parse ==
    /\ pc = "start"
    /\ board' = parse(input)
    /\ origin' = "parse"
    /\ pc' = IF board' = None THEN "invalid" ELSE "parsed"
    /\ UNCHANGED <<input, clues0, was_solved, calls, helperVars>>
    /\ UNCHANGED notMainVars

Clobber ==
    /\ pc = "parsed"
    /\ \E w \in Clobbers :
          /\ NewAsserts(w[2], w[3])
          /\ board' = Some([board[1] EXCEPT ![w[1]] = BitOr(@, New(w[2], w[3]))])
    /\ origin' = "clobber"
    /\ pc' = "clobbered"
    /\ UNCHANGED <<input, clues0, was_solved, calls, helperVars>>
    /\ UNCHANGED notMainVars

\* solve(&mut board, &all_paths), all_paths the collected generate_paths().
Solve ==
    /\ pc \in {"parsed", "clobbered", "solved"}
    /\ calls < MaxSolveCalls
    /\ possible_paths' = solve_possible_paths(board[1], generate_paths)
    /\ helper_out' = solve_helper(possible_paths', Default)
    /\ board' = Some(solve_board(board[1], possible_paths', helper_out'))
    /\ was_solved' = Some(helper_out' # None)
    /\ pc' = IF helper_out' # None THEN "solved" ELSE "no_solution"
    /\ clues0' = board
    /\ calls' = calls + 1
    /\ UNCHANGED <<input, origin, helper_pc>>
    /\ UNCHANGED notMainVars

(***************************************************************************)
(* The specifications.                                                     *)
(***************************************************************************)
ParkedHelper == possible_paths = <<>> /\ helper_out = None /\ helper_pc = "idle"

ParkedMain ==
    /\ input = <<>> /\ board = None /\ origin = "none" /\ clues0 = None
    /\ was_solved = None /\ calls = 0 /\ pc = "idle"

\* Any sequence of Bitfield operations.
InitBits == ParkedBits /\ ParkedHelper /\ ParkedGen /\ ParkedPerm /\ ParkedMain

NextBits ==
    \/ OpNew
    \/ OpDefault
    \/ OpCopy
    \/ OpBitOr
    \/ OpBitOrAssign
    \/ OpBitAnd
    \/ OpBitAndAssign
    \/ OpNot

SpecBits == InitBits /\ [][NextBits]_vars

\* One pass over generate_paths().
InitGenSpec == ParkedBits /\ ParkedHelper /\ InitGen /\ ParkedPerm /\ ParkedMain

NextGen == GenYield \/ GenExhaust

SpecGen == InitGenSpec /\ [][NextGen]_vars

\* One pass over permutations().
InitPermSpec == ParkedBits /\ ParkedHelper /\ ParkedGen /\ ParkedPerm /\ ParkedMain

NextPerm == PermYield \/ PermExhaust

SpecPerm == InitPermSpec /\ [][NextPerm]_vars

\* One call of solve_helper.
InitHelperSpec == ParkedBits /\ InitHelper /\ ParkedGen /\ ParkedPerm /\ ParkedMain

NextHelper == HelperCall

SpecHelper == InitHelperSpec /\ [][NextHelper]_vars

\* Board::parse on its own.
InitParseSpec == ParkedBits /\ ParkedGen /\ ParkedPerm /\ InitMain(ParseInputs)

NextParse == Parse

SpecParse == InitParseSpec /\ [][NextParse]_vars

\* main: parse, then solve.
Init == ParkedBits /\ ParkedGen /\ ParkedPerm /\ InitMain(SolveInputs)

Next == Parse \/ Clobber \/ Solve

Spec == Init /\ [][Next]_vars

(***************************************************************************)
(* What a placement pattern is, stated on the cells themselves: cell i     *)
(* lies in row i div 9, column i mod 9, and in the box of its row div 3    *)
(* and column div 3.                                                       *)
(***************************************************************************)
RowOf(cell) == cell \div GridSize
ColOf(cell) == cell % GridSize
Lines == 0..(GridSize - 1)
Bands == 0..(BoxSize - 1)

OnePerRow(s) == \A r \in Lines : Cardinality({cell \in s : RowOf(cell) = r}) = 1
OnePerCol(s) == \A c \in Lines : Cardinality({cell \in s : ColOf(cell) = c}) = 1
OnePerBox(s) ==
    \A br \in Bands, bc \in Bands :
        Cardinality({cell \in s : RowOf(cell) \div BoxSize = br
                                  /\ ColOf(cell) \div BoxSize = bc}) = 1

IsPlacement(s) == s \subseteq 0..(NumCells - 1) /\ OnePerRow(s) /\ OnePerCol(s) /\ OnePerBox(s)

\* Every set of cells with exactly one cell in each row, column and box, built
\* row by row: such a set has one cell in row 0, one in row 1, ..., and the
\* cells of its first rows never share a column or a box.  Fits says that a
\* cell of `row` in column c shares no column and no box with `partial`.
Fits(partial, row, c) ==
    \A cell \in partial :
        /\ ColOf(cell) # c
        /\ ~(RowOf(cell) \div BoxSize = row \div BoxSize
             /\ ColOf(cell) \div BoxSize = c \div BoxSize)

RECURSIVE PlacementsFrom(_, _)
PlacementsFrom(row, partial) ==
    IF row = GridSize THEN <<partial>>
    ELSE LET ext(c) == IF Fits(partial, row, c)
                       THEN PlacementsFrom(row + 1, partial \cup {GridSize * row + c})
                       ELSE <<>>
         IN  ext(0) \o ext(1) \o ext(2) \o ext(3) \o ext(4)
               \o ext(5) \o ext(6) \o ext(7) \o ext(8)

PlacementSeq == PlacementsFrom(0, {})

ValidPlacements == {PlacementSeq[k] : k \in 1..Len(PlacementSeq)}

\* The set of the cell-sets generate_paths yields.
PathSet == {generate_paths[k] : k \in 1..Len(generate_paths)}

\* The count asserted by test::total_count.
ExpectedPaths == 46656

(***************************************************************************)
(* Claims about the Bitfield and the path generator.                       *)
(***************************************************************************)
\* C4: when the iterator is exhausted it has yielded exactly 46,656 cell-sets,
\* no cell-set twice (the yielded cell-sets are as many as the yields), and
\* every cell-set with exactly one cell in each row, column and box is among
\* them.
C4_CountDistinctComplete ==
    gen_count # None =>
        /\ gen_count[1] = ExpectedPaths
        /\ Cardinality(PathSet) = gen_count[1]
        /\ ValidPlacements \subseteq PathSet

C4_Witness == gen_count # None /\ gen_pos = ExpectedPaths /\ found

\* C5: every cell-set the iterator yields has exactly one cell in each row,
\* each column and each box.
C5_YieldedIsPlacement == gen_item # None => IsPlacement(gen_item[1])

C5_Witness == gen_item # None /\ gen_pos = Len(generate_paths) /\ gen_pos > 0

\* C6 as stated: the pattern with row r's cell in column (r + 1) mod 9
\* satisfies the box constraints and is in the universe.
C6_ShiftedDiagonalPresent ==
    probe = ShiftedDiagonal =>
        /\ OnePerBox(probe)
        /\ (gen_count # None => found)

\* C6 amended: that pattern puts two cells in one box and is never yielded;
\* the pattern of test::includes_one_known_value (columns 1, 4, 8, 0, 3, 7,
\* 5, 2, 6 for rows 0..8) satisfies the box constraints and is yielded.
C6_KnownPathPresent ==
    /\ probe = ShiftedDiagonal => ~OnePerBox(probe) /\ ~found
    /\ probe = KnownPath => OnePerBox(probe) /\ (gen_count # None => found)

C6_Witness == probe = KnownPath /\ found /\ gen_count # None

\* C8: no Bitfield built by new, default, |, |=, &, &= and ! has a bit at
\* index 81 or above, and the complement of y is exactly the valid bits that
\* y lacks.
C8_NoHighBits ==
    /\ \A bit \in x \cup y : bit < NumCells
    /\ last_op = "not" => x \cap y = {} /\ x \cup y = 0..(NumCells - 1)

C8_Witness == last_op = "not" /\ (NumCells - 1) \in x /\ 0 \in y

(***************************************************************************)
(* Claims about solve_helper.  A choice picks one position in each list;   *)
(* it is disjoint when the paths at the picked positions are pairwise      *)
(* disjoint.                                                               *)
(***************************************************************************)
Choices(paths) ==
    {f \in [1..Len(paths) -> 1..MaxCands + 1] : \A i \in 1..Len(paths) : f[i] <= Len(paths[i])}

DisjointChoice(paths, f) ==
    \A i \in 1..Len(paths), j \in 1..Len(paths) :
        i < j => paths[i][f[i]] \cap paths[j][f[j]] = {}

DisjointChoices(paths) == {f \in Choices(paths) : DisjointChoice(paths, f)}

Picked(paths, f) == [i \in 1..Len(paths) |-> paths[i][f[i]]]

\* f comes no later than g, comparing the first list's position first.
LexLeq(f, g) ==
    \/ f = g
    \/ \E i \in DOMAIN f : f[i] < g[i] /\ \A j \in 1..(i - 1) : f[j] = g[j]

\* C2: solve_helper started with an empty taken_spaces returns None exactly
\* when no choice of one path per list is pairwise disjoint; otherwise it
\* returns one path per list, the i-th of them a path of the i-th list.
C2_NoneIffNoDisjointChoice ==
    helper_pc = "returned" =>
        /\ helper_out = None <=> DisjointChoices(possible_paths) = {}
        /\ helper_out # None =>
              /\ Len(helper_out[1]) = Len(possible_paths)
              /\ \A i \in 1..Len(possible_paths) :
                    \E k \in 1..Len(possible_paths[i]) :
                        helper_out[1][i] = possible_paths[i][k]

C2_Witness ==
    /\ helper_pc = "returned" /\ helper_out = None
    /\ Len(possible_paths) = MaxLists
    /\ \A i \in 1..Len(possible_paths) : possible_paths[i] # <<>>

\* C3: what solve_helper returns is the pick of the disjoint choice that is
\* lexicographically smallest by position, first list first.
C3_FirstInDepthFirstOrder ==
    helper_pc = "returned" /\ helper_out # None =>
        \E f \in DisjointChoices(possible_paths) :
            /\ helper_out[1] = Picked(possible_paths, f)
            /\ \A g \in DisjointChoices(possible_paths) : LexLeq(f, g)

C3_Witness ==
    /\ helper_pc = "returned" /\ helper_out # None
    /\ Len(possible_paths) = MaxLists
    /\ Cardinality({Picked(possible_paths, f) : f \in DisjointChoices(possible_paths)}) > 1
    /\ helper_out[1][1] # possible_paths[1][1]

(***************************************************************************)
(* Claims about Board::parse and solve.                                    *)
(***************************************************************************)
DigitChars == {CharOf(d) : d \in Digits}

CountOf(s, ch) == Cardinality({i \in 1..Len(s) : s[i] = ch})

WellFormed(s) ==
    /\ Len(s) = NumCells
    /\ \A i \in 1..Len(s) : s[i] \in DigitChars \cup {"."}

\* The input is not 81 characters long, or has a character other than '1'..'9'
\* and '.', or has some digit more than 9 times.
Rejected(s) ==
    \/ ~WellFormed(s)
    \/ \E d \in Digits : CountOf(s, CharOf(d)) > GridSize

\* The cells (i / 9, i mod 9) of the positions i (from 0) whose character is d.
CellsOf(s, d) ==
    {GridSize * (i \div GridSize) + (i % GridSize) :
        i \in {j \in 0..(Len(s) - 1) : s[j + 1] = CharOf(d)}}

Overlapping(placements) ==
    \E d \in Digits, e \in Digits : d # e /\ placements[d] \cap placements[e] # {}

\* C1: on a board Board::parse accepted, when solve has returned true the
\* nine digit sets are pairwise disjoint, each has 9 cells, each is one of the
\* paths passed in, each contains the digit's clues from before the call, and
\* together they cover all 81 cells.
C1_SolvedBoardIsSolution ==
    pc = "solved" /\ origin = "parse" =>
        /\ was_solved = Some(TRUE)
        /\ \A d \in Digits, e \in Digits :
              d # e => board[1][d] \cap board[1][e] = {}
        /\ \A d \in Digits :
              /\ Cardinality(board[1][d]) = GridSize
              /\ board[1][d] \in PathSet
              /\ clues0[1][d] \subseteq board[1][d]
        /\ UNION {board[1][d] : d \in Digits} = 0..(NumCells - 1)

C1_Witness ==
    /\ input = Canon /\ origin = "parse" /\ pc = "solved" /\ calls = 1
    /\ \A d \in Digits : clues0[1][d] # {} /\ clues0[1][d] # board[1][d]

\* C7: Board::parse returns None exactly when the input is rejected (not 81
\* characters, a character other than '1'..'9' and '.', or a digit more than
\* 9 times); otherwise it returns the board whose set for each digit d is the
\* cells of the positions holding d.
C7_ParseNoneIffRejected ==
    pc \in {"parsed", "invalid"} /\ calls = 0 /\ origin = "parse" =>
        /\ board = None <=> Rejected(input)
        /\ ~Rejected(input) =>
              board = Some([d \in Digits |-> CellsOf(input, d)])

C7_Witness ==
    /\ pc = "invalid" /\ board = None /\ WellFormed(input)
    /\ \E d \in Digits : CountOf(input, CharOf(d)) = GridSize + 1

\* C9: when the board given to solve has a cell that two digits claim, the
\* call returns (the step is taken), nothing has panicked, and it returns
\* false.
C9_OverlapReportsFailure ==
    calls > 0 /\ Overlapping(clues0[1]) =>
        /\ pc = "no_solution"
        /\ was_solved = Some(FALSE)
        /\ ~panicked

C9_Witness ==
    /\ origin = "clobber" /\ calls = 1 /\ Overlapping(clues0[1])
    /\ pc = "no_solution"
    /\ \A d \in Digits : possible_paths[d] # <<>>

\* C10: when solve has returned false the board's nine digit sets are what
\* they were before the call.
C10_FailureLeavesBoard ==
    pc = "no_solution" => was_solved = Some(FALSE) /\ board = clues0

C10_Witness ==
    /\ input = Stuck /\ pc = "no_solution" /\ origin = "parse" /\ board = clues0
    /\ \A d \in Digits : possible_paths[d] # <<>>

(***************************************************************************)
(* Claims about the candidate lists, permutations and a second solve.      *)
(***************************************************************************)
\* The clue cells of the eight digits other than d.
OtherClues(placements, d) == UNION {placements[e] : e \in Digits \ {d}}

\* The paths of the universe, in universe order, that are supersets of d's
\* clues and share no cell with the other digits' clues.
ExpectedCandidates(placements, d) ==
    LET wanted(path) ==
            /\ placements[d] \subseteq path
            /\ path \cap OtherClues(placements, d) = {}
    IN  SelectSeq(generate_paths, wanted)

\* C11: on a board Board::parse accepted, the candidate list solve builds for
\* each digit d is the subsequence of the path universe, in universe order,
\* of the paths that contain d's clues and are disjoint from the union of the
\* other eight digits' clues.
C11_CandidatesAreFilteredUniverse ==
    calls > 0 /\ origin = "parse" =>
        \A d \in Digits : possible_paths[d] = ExpectedCandidates(clues0[1], d)

C11_Witness ==
    /\ input = Canon /\ origin = "parse" /\ calls = 1
    /\ \A d \in Digits :
          /\ clues0[1][d] # {}
          /\ Len(possible_paths[d]) > 1
          /\ Len(possible_paths[d]) < Len(generate_paths)

\* The count asserted by permutations_test::count.
ExpectedPermutations == 362880

\* n! : the number of orderings of n numbers.
RECURSIVE Factorial(_)
Factorial(n) == IF n = 0 THEN 1 ELSE n * Factorial(n - 1)

\* An ordering of 0..8: nine numbers of 0..8, none of them twice.
IsOrdering(xs) ==
    /\ Len(xs) = GridSize
    /\ \A i \in 1..Len(xs) : xs[i] \in 0..(GridSize - 1)
    /\ \A i \in 1..Len(xs), j \in 1..Len(xs) : i # j => xs[i] # xs[j]

\* Some orderings: ascending, descending, and the columns of KnownPath.
SomeOrderings ==
    { <<0, 1, 2, 3, 4, 5, 6, 7, 8>>,
      <<8, 7, 6, 5, 4, 3, 2, 1, 0>>,
      <<1, 4, 8, 0, 3, 7, 5, 2, 6>> }

\* C12: every tuple permutations() yields is an ordering of 0..8 (no number
\* twice); when the iterator is exhausted it has yielded 362,880 = 9! tuples,
\* no tuple twice (the yielded tuples are as many as the yields), which makes
\* them all the orderings there are; some orderings are looked up one by one.
C12_EveryOrderingOnce ==
    /\ perm_item # None => IsOrdering(perm_item[1])
    /\ perm_count # None =>
          /\ perm_count[1] = ExpectedPermutations
          /\ perm_count[1] = Factorial(GridSize)
          /\ Cardinality({permutations[k] : k \in 1..perm_count[1]}) = perm_count[1]
          /\ \A xs \in SomeOrderings :
                \E k \in 1..perm_count[1] : permutations[k] = xs

C12_Witness ==
    /\ perm_count # None /\ perm_pos = ExpectedPermutations
    /\ perm_pos = Len(permutations)

\* C13: a call of solve on the board a successful call left behind (a second
\* or later call happens only on such a board) returns true and leaves the
\* nine digit sets as they were.
C13_SolveIdempotentOnSuccess ==
    calls >= 2 =>
        /\ pc = "solved"
        /\ was_solved = Some(TRUE)
        /\ board = clues0

C13_Witness ==
    /\ input = Canon /\ calls = 2 /\ pc = "solved" /\ board = clues0
    /\ \A d \in Digits : Len(possible_paths[d]) = 1

=============================================================================
